---- MODULE Spec2Model ----
(***************************************************************************)
(* dm-data-noise-adder: src/main.py.                                       *)
(*                                                                         *)
(* add_noise(data, column_name, min_noise, max_noise, seed) validates its  *)
(* arguments, optionally reseeds the process-wide generators, and replaces *)
(* one column of a DataFrame by x * (1 + uniform(min_noise, max_noise)).   *)
(* main() reads a CSV file, calls add_noise and writes the result.         *)
(*                                                                         *)
(* Numbers.  Noise bounds are floats given in tenths (-1 is -0.1), or NaN. *)
(* A draw of random_sample() in [0,1) is r / Resolution with               *)
(* r in 0..Resolution-1, so a noise value u is kept as the integer         *)
(* u * Den with Den = 10 * Resolution, and every numeric cell is kept as   *)
(* the integer cell * Den.  With input cells whole numbers the product     *)
(* x * (1 + u) is exact in these units.  Rounding of binary floating point *)
(* is not modelled.                                                        *)
(***************************************************************************)
EXTENDS Integers, Sequences, FiniteSets, TLC

VARIABLES
    pc,       \* position of the caller / of main
    args,     \* the arguments of the invocation (argparse Namespace in main)
    data,     \* the DataFrame object the caller holds
    result,   \* the exception add_noise (or main) ended with, or NoError
    rng,      \* state of numpy's process-wide generator (np.random)
    pyseed,   \* state of Python's process-wide generator (random)
    before,   \* snapshot taken at the call: the frame passed in, rng, pyseed
    draws,    \* the values np.random.uniform returned during the call, in order
    log,      \* records handed to logging during the call / the run
    prior,    \* the previous invocation in this process, when it was seeded and returned
    infile,   \* the input file of main
    outfile   \* the output file of main

vars == <<pc, args, data, result, rng, pyseed, before, draws, log, prior, infile, outfile>>

----------------------------------------------------------------------------
(* Bounds of the model *)

MaxRows == 2
MaxNoise == 1
MaxSeed == 1
RngMod == 7
Resolution == 4

Den == 10 * Resolution

----------------------------------------------------------------------------
(* Python values *)

\* a float: finite (tenths) or NaN
Float(n) == [nan |-> FALSE, v |-> n]
NaN == [nan |-> TRUE, v |-> 0]

\* Python's a >= b on floats: False as soon as one side is NaN
FloatGe(a, b) == ~a.nan /\ ~b.nan /\ a.v >= b.v

\* Python's a < b on floats
FloatLt(a, b) == ~a.nan /\ ~b.nan /\ a.v < b.v

\* seed: None is <<>>, the integer s is <<s>>
None == <<>>
Some(s) == <<s>>

\* exceptions
NoError == [type |-> "None", msg |-> "None"]
Exc(t, m) == [type |-> t, msg |-> m]
UnknownColumn == Exc("ValueError", "Column not found in the input file.")
NonNumericColumn == Exc("TypeError", "Column is not numeric.")
InvalidRange == Exc("ValueError", "min_noise must be less than max_noise.")
BadSeed == Exc("ValueError", "Seed must be between 0 and 2**32 - 1")
RangeOverflow == Exc("OverflowError", "Range exceeds valid bounds")
FileNotFound == Exc("FileNotFoundError", "No such file or directory")
EmptyData == Exc("EmptyDataError", "No columns to parse from file")
WriteFailed == Exc("OSError", "Cannot save file into a non-existent directory")

----------------------------------------------------------------------------
(* DataFrames *)

ColumnNames == <<"id", "name", "salary">>

CellValues == {-1, 0, 2}

RECURSIVE SeqsUpTo(_, _)
SeqsUpTo(S, n) ==
    IF n = 0 THEN {<<>>}
    ELSE LET shorter == SeqsUpTo(S, n - 1)
         IN  shorter \cup {Append(xs, x) : xs \in {ys \in shorter : Len(ys) = n - 1}, x \in S}

\* the frame pd.read_csv builds from a file with header id,name,salary and one
\* row per element of xs: numeric text becomes int64, other text object; a
\* column without any row is object
ParsedFrame(xs) ==
    [cols  |-> ColumnNames,
     dtype |-> [c \in {"id", "name", "salary"} |->
                  IF Len(xs) = 0 \/ c = "name" THEN "object" ELSE "int64"],
     vals  |-> [c \in {"id", "name", "salary"} |->
                  CASE c = "id"     -> [i \in 1..Len(xs) |-> i * Den]
                    [] c = "salary" -> [i \in 1..Len(xs) |-> xs[i] * Den]
                    [] OTHER        -> [i \in 1..Len(xs) |-> "text"]]]

\* a frame built in memory with no rows and typed columns
EmptyTypedFrame ==
    [cols  |-> ColumnNames,
     dtype |-> [c \in {"id", "name", "salary"} |->
                  IF c = "name" THEN "object" ELSE "float64"],
     vals  |-> [c \in {"id", "name", "salary"} |-> <<>>]]

Frames == {ParsedFrame(xs) : xs \in SeqsUpTo(CellValues, MaxRows)} \cup {EmptyTypedFrame}

NoFrame == [cols |-> <<>>, dtype |-> <<>>, vals |-> <<>>]

HasColumn(df, c) == \E i \in 1..Len(df.cols) : df.cols[i] = c

NumRows(df) == IF Len(df.cols) = 0 THEN 0 ELSE Len(df.vals[df.cols[1]])

\* pd.api.types.is_numeric_dtype
is_numeric_dtype(dt) == dt \in {"int64", "float64", "bool"}

----------------------------------------------------------------------------
(* The process-wide generator.  The Mersenne Twister is stood for by a     *)
(* counter generator over RngStates: seeding fixes the state, every draw   *)
(* moves it one step and yields a sample that depends on the state only.   *)

RngStates == 0..(RngMod - 1)

SeedValues == {None} \cup {Some(s) : s \in (-1)..MaxSeed}

\* np.random.seed(s) accepts 0 <= s <= 2**32 - 1
ValidSeed(s) == s >= 0

SeedState(s) == (2 * s + 1) % RngMod

Advance(q) == (q + 1) % RngMod

\* random_sample(): numerator of a value in [0, 1)
RandomSample(q) == (2 * q + (q \div 3)) % Resolution

NoiseValues == {Float(n) : n \in (-MaxNoise)..MaxNoise} \cup {NaN}

\* a call with the bounds taken in the wrong order
uniform_Swapped(low, high, q) == high.v * Resolution + (low.v - high.v) * RandomSample(q)

\* np.random.uniform(low, high) for a finite range: low + (high - low) * random_sample(),
\* in units of 1 / Den
uniform(low, high, q) == low.v * Resolution + (high.v - low.v) * RandomSample(q)

\* np.random.uniform refuses a range that is not finite
RangeFinite(low, high) == ~low.nan /\ ~high.nan

----------------------------------------------------------------------------
(* add_noise *)

\* logging.error(...) in the except clauses of add_noise
LogPrefix(e) ==
    CASE e.type = "ValueError" -> "ValueError: "
      [] e.type = "TypeError"  -> "TypeError: "
      [] OTHER                 -> "An unexpected error occurred: "

ErrorRecord(prefix, e) == [level |-> "ERROR", text |-> prefix, exc |-> e]
InfoRecord(text) == [level |-> "INFO", text |-> text, exc |-> NoError]

\* the checks with the range looked at first
Validate_RangeFirst(df, column_name, min_noise, max_noise) ==
    IF FloatGe(min_noise, max_noise) THEN InvalidRange
    ELSE IF ~HasColumn(df, column_name) THEN UnknownColumn
    ELSE IF ~is_numeric_dtype(df.dtype[column_name]) THEN NonNumericColumn
    ELSE NoError

\* the three checks at the head of add_noise, in the order of the code
Validate(df, column_name, min_noise, max_noise) ==
    IF ~HasColumn(df, column_name) THEN UnknownColumn
    ELSE IF ~is_numeric_dtype(df.dtype[column_name]) THEN NonNumericColumn
    ELSE IF FloatGe(min_noise, max_noise) THEN InvalidRange
    ELSE NoError

\* the seed accepted and never handed to the generators
Reseed_Skipped(seed, q, py) ==
    IF seed # None /\ ~ValidSeed(seed[1]) THEN [exc |-> BadSeed, rng |-> q, pyseed |-> py]
    ELSE [exc |-> NoError, rng |-> q, pyseed |-> py]

\* np.random.seed(seed); random.seed(seed)
Reseed(seed, q, py) ==
    IF seed = None THEN [exc |-> NoError, rng |-> q, pyseed |-> py]
    ELSE IF ~ValidSeed(seed[1]) THEN [exc |-> BadSeed, rng |-> q, pyseed |-> py]
    ELSE [exc |-> NoError, rng |-> SeedState(seed[1]), pyseed |-> seed]

\* lambda x: x * (1 + u), x and u in units of 1 / Den
Noisy(x, u) == (x * (Den + u)) \div Den

\* an apply that hands the rows back last row first
RECURSIVE ApplyRows_Reversed(_, _, _, _)
ApplyRows_Reversed(xs, min_noise, max_noise, q) ==
    IF xs = <<>> THEN [vals |-> <<>>, draws |-> <<>>, rng |-> q]
    ELSE LET u == uniform(min_noise, max_noise, q)
             rest == ApplyRows_Reversed(Tail(xs), min_noise, max_noise, Advance(q))
         IN  [vals  |-> rest.vals \o <<Noisy(Head(xs), u)>>,
              draws |-> <<u>> \o rest.draws,
              rng   |-> rest.rng]

\* a lambda that draws twice per row and uses the first draw
RECURSIVE ApplyRows_TwoDraws(_, _, _, _)
ApplyRows_TwoDraws(xs, min_noise, max_noise, q) ==
    IF xs = <<>> THEN [vals |-> <<>>, draws |-> <<>>, rng |-> q]
    ELSE LET u == uniform(min_noise, max_noise, q)
             rest == ApplyRows_TwoDraws(Tail(xs), min_noise, max_noise, Advance(Advance(q)))
         IN  [vals  |-> <<Noisy(Head(xs), u)>> \o rest.vals,
              draws |-> <<u>> \o rest.draws,
              rng   |-> rest.rng]

\* Series.apply(lambda x: x * (1 + np.random.uniform(min_noise, max_noise))):
\* one call of the lambda, hence one draw, per element, in index order
RECURSIVE ApplyRows(_, _, _, _)
ApplyRows(xs, min_noise, max_noise, q) ==
    IF xs = <<>> THEN [vals |-> <<>>, draws |-> <<>>, rng |-> q]
    ELSE LET u == uniform(min_noise, max_noise, q)
             rest == ApplyRows(Tail(xs), min_noise, max_noise, Advance(q))
         IN  [vals  |-> <<Noisy(Head(xs), u)>> \o rest.vals,
              draws |-> <<u>> \o rest.draws,
              rng   |-> rest.rng]

\* an assignment that overwrites every numeric column
AssignColumn_AllNumeric(df, column_name, newvals) ==
    [df EXCEPT !.vals = [c \in DOMAIN df.vals |->
                           IF is_numeric_dtype(df.dtype[c]) THEN newvals ELSE df.vals[c]]]

\* data[column_name] = <new Series>: the column keeps its place; a Series of
\* products with a float is float64, an empty one keeps its dtype
AssignColumn(df, column_name, newvals) ==
    [df EXCEPT !.vals[column_name] = newvals,
               !.dtype[column_name] = IF Len(newvals) = 0 THEN @ ELSE "float64"]

Raised(df, e, q, py) ==
    [data |-> df, exc |-> e, rng |-> q, pyseed |-> py, draws |-> <<>>,
     log |-> <<ErrorRecord(LogPrefix(e), e)>>]

\* add_noise with the generators reseeded before the arguments are checked
add_noise_SeedFirst(df, column_name, min_noise, max_noise, seed, q, py) ==
    LET seeded == Reseed(seed, q, py)
        invalid == Validate(df, column_name, min_noise, max_noise)
    IN  IF seeded.exc # NoError THEN Raised(df, seeded.exc, seeded.rng, seeded.pyseed)
        ELSE IF invalid # NoError THEN Raised(df, invalid, seeded.rng, seeded.pyseed)
        ELSE IF NumRows(df) > 0 /\ ~RangeFinite(min_noise, max_noise)
        THEN Raised(df, RangeOverflow, seeded.rng, seeded.pyseed)
        ELSE
        LET applied == ApplyRows(df.vals[column_name], min_noise, max_noise, seeded.rng)
        IN  [data   |-> AssignColumn(df, column_name, applied.vals),
             exc    |-> NoError,
             rng    |-> applied.rng,
             pyseed |-> seeded.pyseed,
             draws  |-> applied.draws,
             log    |-> <<>>]

add_noise(df, column_name, min_noise, max_noise, seed, q, py) ==
    LET invalid == Validate(df, column_name, min_noise, max_noise)
    IN  IF invalid # NoError THEN Raised(df, invalid, q, py)
        ELSE
        LET seeded == Reseed(seed, q, py)
        IN  IF seeded.exc # NoError THEN Raised(df, seeded.exc, seeded.rng, seeded.pyseed)
            ELSE IF NumRows(df) > 0 /\ ~RangeFinite(min_noise, max_noise)
            THEN Raised(df, RangeOverflow, seeded.rng, seeded.pyseed)
            ELSE
            LET applied == ApplyRows(df.vals[column_name], min_noise, max_noise, seeded.rng)
            IN  [data   |-> AssignColumn(df, column_name, applied.vals),
                 exc    |-> NoError,
                 rng    |-> applied.rng,
                 pyseed |-> seeded.pyseed,
                 draws  |-> applied.draws,
                 log    |-> <<>>]

----------------------------------------------------------------------------
(* A process that invokes add_noise again and again *)

ColumnArgs == {"salary", "name", "missing"}

ArgSets ==
    [column_name : ColumnArgs, min_noise : NoiseValues, max_noise : NoiseValues,
     seed : SeedValues]

NoArgs == [column_name |-> "", min_noise |-> NaN, max_noise |-> NaN, seed |-> None]
NoSnapshot == [data |-> NoFrame, rng |-> 0, pyseed |-> None]
NoPrior == [seeded |-> FALSE, seed |-> None, rows |-> 0]
NoInput == [state |-> "missing", rows |-> <<>>]
NoOutput == [state |-> "absent", header |-> <<>>, cells |-> <<>>]

Init ==
    /\ pc = "idle"
    /\ args = NoArgs
    /\ data = NoFrame
    /\ result = NoError
    /\ rng \in RngStates
    /\ pyseed = None
    /\ before = NoSnapshot
    /\ draws = <<>>
    /\ log = <<>>
    /\ prior = NoPrior
    /\ infile = NoInput
    /\ outfile = NoOutput

\* the caller builds a frame and calls add_noise on it; whether add_noise
\* returns or raises, the caller goes on holding the frame object
AddNoise ==
    /\ pc = "idle"
    /\ \E df \in Frames, a \in ArgSets :
         LET r == add_noise(df, a.column_name, a.min_noise, a.max_noise, a.seed, rng, pyseed)
         IN  /\ args' = a
             /\ before' = [data |-> df, rng |-> rng, pyseed |-> pyseed]
             /\ data' = r.data
             /\ result' = r.exc
             /\ rng' = r.rng
             /\ pyseed' = r.pyseed
             /\ draws' = r.draws
             /\ log' = r.log
    /\ pc' = "returned"
    /\ UNCHANGED <<prior, infile, outfile>>

\* the caller drops the frame; the generators keep their state
Release ==
    /\ pc = "returned"
    /\ pc' = "idle"
    /\ prior' = IF result = NoError /\ args.seed # None
                THEN [seeded |-> TRUE, seed |-> args.seed, rows |-> NumRows(before.data)]
                ELSE NoPrior
    /\ args' = NoArgs
    /\ data' = NoFrame
    /\ result' = NoError
    /\ before' = NoSnapshot
    /\ draws' = <<>>
    /\ log' = <<>>
    /\ UNCHANGED <<rng, pyseed, infile, outfile>>

Next == AddNoise \/ Release

Spec == Init /\ [][Next]_vars

----------------------------------------------------------------------------
(* main: one run of the command-line tool *)

\* the input path names no file, a file of zero bytes, or a CSV file with the
\* header id,name,salary and the given salary cells
InputFiles ==
    {[state |-> st, rows |-> <<>>] : st \in {"missing", "empty"}}
    \cup {[state |-> "csv", rows |-> xs] : xs \in SeqsUpTo(CellValues, MaxRows)}

\* the output path names nothing yet, an older file, or a place that cannot be written
OutputFiles ==
    {[state |-> st, header |-> <<>>, cells |-> <<>>] : st \in {"absent", "old", "unwritable"}}

\* pd.read_csv(args.input_file)
read_csv(f) ==
    CASE f.state = "missing" -> [exc |-> FileNotFound, data |-> NoFrame]
      [] f.state = "empty"   -> [exc |-> EmptyData, data |-> NoFrame]
      [] OTHER               -> [exc |-> NoError, data |-> ParsedFrame(f.rows)]

\* data.to_csv(args.output_file, index=False): the header and the cells, no index column
to_csv(df, f) ==
    IF f.state = "unwritable" THEN [exc |-> WriteFailed, file |-> f]
    ELSE [exc |-> NoError,
          file |-> [state |-> "written", header |-> df.cols, cells |-> df.vals]]

\* a last except clause written for ValueError and TypeError only
IsException_Narrow(e) == e.type \in {"ValueError", "TypeError"}

\* every exception class raised here derives from Exception
IsException(e) ==
    e.type \in {"ValueError", "TypeError", "OverflowError", "FileNotFoundError",
                "EmptyDataError", "OSError"}

\* the except clauses of main, tried in order; None when no clause matches
MainHandler(e) ==
    CASE e.type = "FileNotFoundError" -> <<ErrorRecord("Input file not found: ", NoError)>>
      [] e.type = "EmptyDataError"    -> <<ErrorRecord("Input file is empty: ", NoError)>>
      [] IsException(e)               -> <<ErrorRecord("An error occurred: ", e)>>
      [] OTHER                        -> None

\* a handler that logs and lets main go on to the save
AfterException_GoOn(e) == "noised"

\* where main is after exception e was raised inside its try block
AfterException(e) == IF MainHandler(e) = None THEN "crashed" ELSE "done"

InitMain ==
    /\ pc = "start"
    /\ args \in ArgSets
    /\ data = NoFrame
    /\ result = NoError
    /\ rng \in RngStates
    /\ pyseed = None
    /\ before = NoSnapshot
    /\ draws = <<>>
    /\ log = <<>>
    /\ prior = NoPrior
    /\ infile \in InputFiles
    /\ outfile \in OutputFiles

\* logging.info("Reading input file"); data = pd.read_csv(args.input_file)
MainRead ==
    /\ pc = "start"
    /\ LET r == read_csv(infile)
       IN  /\ data' = r.data
           /\ result' = r.exc
           /\ log' = log \o <<InfoRecord("Reading input file: ")>>
                         \o (IF r.exc = NoError THEN <<>> ELSE MainHandler(r.exc))
           /\ pc' = IF r.exc = NoError THEN "read" ELSE AfterException(r.exc)
    /\ UNCHANGED <<args, rng, pyseed, before, draws, prior, infile, outfile>>

\* logging.info("Adding noise to column"); data = add_noise(data, ...)
MainAddNoise ==
    /\ pc = "read"
    /\ LET r == add_noise(data, args.column_name, args.min_noise, args.max_noise,
                          args.seed, rng, pyseed)
       IN  /\ before' = [data |-> data, rng |-> rng, pyseed |-> pyseed]
           /\ data' = r.data
           /\ result' = r.exc
           /\ rng' = r.rng
           /\ pyseed' = r.pyseed
           /\ draws' = r.draws
           /\ log' = log \o <<InfoRecord("Adding noise to column: ")>> \o r.log
                         \o (IF r.exc = NoError THEN <<>> ELSE MainHandler(r.exc))
           /\ pc' = IF r.exc = NoError THEN "noised" ELSE AfterException(r.exc)
    /\ UNCHANGED <<args, prior, infile, outfile>>

\* logging.info("Saving output"); data.to_csv(...); logging.info("... completed successfully.")
MainSave ==
    /\ pc = "noised"
    /\ LET r == to_csv(data, outfile)
       IN  /\ outfile' = r.file
           /\ result' = r.exc
           /\ log' = log \o <<InfoRecord("Saving output to: ")>>
                         \o (IF r.exc = NoError
                             THEN <<InfoRecord("Data masking completed successfully.")>>
                             ELSE MainHandler(r.exc))
           /\ pc' = IF r.exc = NoError THEN "done" ELSE AfterException(r.exc)
    /\ UNCHANGED <<args, data, rng, pyseed, before, draws, prior, infile>>

NextMain == MainRead \/ MainAddNoise \/ MainSave

SpecMain == InitMain /\ [][NextMain]_vars

----------------------------------------------------------------------------
(* Properties of add_noise, read off the state in which it has just ended *)

Returned == pc = "returned"
Succeeded == Returned /\ result = NoError
Target == args.column_name
InputRows == NumRows(before.data)

ColumnMissing == \A i \in 1..Len(before.data.cols) : before.data.cols[i] # Target
ColumnNotNumeric == ~ColumnMissing /\ before.data.dtype[Target] \notin {"int64", "float64"}
RangeNotIncreasing == ~FloatLt(args.min_noise, args.max_noise)

\* C1: the checks are made in the order column present, column numeric,
\* min_noise < max_noise, and the first one violated decides the error: a
\* missing column gives UnknownColumn and a non-numeric column
\* NonNumericColumn whatever the range is, and InvalidRange is raised only
\* for a present, numeric column.
C1_CheckOrder ==
    Returned =>
        /\ ColumnMissing => result = UnknownColumn
        /\ ColumnNotNumeric => result = NonNumericColumn
        /\ result = InvalidRange =>
              ~ColumnMissing /\ ~ColumnNotNumeric /\ RangeNotIncreasing

C1_Witness ==
    Returned /\ ColumnNotNumeric /\ RangeNotIncreasing /\ result = NonNumericColumn

\* C2: for an existing numeric column the range check is passed exactly when
\* min_noise < max_noise, and InvalidRange is raised otherwise.
C2_RangeCheckExact ==
    (Returned /\ ~ColumnMissing /\ ~ColumnNotNumeric) =>
        (result # InvalidRange <=> FloatLt(args.min_noise, args.max_noise))

\* C4: a seeded invocation gives the result it would give from every other
\* state of the two process-wide generators: same exception, same frame,
\* same draws.
C4_SeededDeterminism ==
    (Returned /\ args.seed # None) =>
        \A q \in RngStates, py \in SeedValues :
            LET other == add_noise(before.data, args.column_name, args.min_noise,
                                   args.max_noise, args.seed, q, py)
            IN  other.exc = result /\ other.data = data /\ other.draws = draws

C4_Witness ==
    /\ Succeeded /\ args.seed # None /\ InputRows = MaxRows
    /\ before.rng # SeedState(args.seed[1])
    /\ data # before.data

\* C5: after a successful add_noise the column names and their order are
\* those of the input, and every column other than the target holds the
\* input's values, row for row.
C5_ColumnIsolation ==
    Succeeded =>
        /\ data.cols = before.data.cols
        /\ DOMAIN data.vals = DOMAIN before.data.vals
        /\ \A c \in DOMAIN before.data.vals :
              c # Target => data.vals[c] = before.data.vals[c]

C5_Witness ==
    /\ Succeeded /\ InputRows = MaxRows
    /\ data.vals[Target] # before.data.vals[Target]

\* C6: after a successful add_noise the frame has as many rows as the input,
\* one draw was made per row, and row i of the target column is row i of the
\* input times (1 + u_i).
C6_RowOrder ==
    Succeeded =>
        /\ NumRows(data) = InputRows
        /\ Len(data.vals[Target]) = InputRows
        /\ Len(draws) = InputRows
        /\ \A i \in 1..InputRows :
              data.vals[Target][i] * Den = before.data.vals[Target][i] * (Den + draws[i])

C6_Witness ==
    /\ Succeeded /\ InputRows = MaxRows /\ InputRows >= 2
    /\ before.data.vals[Target][1] # before.data.vals[Target][2]
    /\ data.vals[Target][1] # data.vals[Target][2]
    /\ draws[1] # draws[2]

\* C7: in a successful add_noise with range (a, b) every draw u satisfies
\* a <= u < b; a row with value v # 0 ends with a relative change
\* v'/v - 1 in [a, b), and a row with value 0 stays 0.
C7_Bounds ==
    Succeeded =>
        \A i \in 1..InputRows :
            LET v    == before.data.vals[Target][i]
                vnew == data.vals[Target][i]
                lo   == args.min_noise.v * Resolution
                hi   == args.max_noise.v * Resolution
            IN  /\ lo <= draws[i] /\ draws[i] < hi
                /\ v = 0 => vnew = 0
                /\ v # 0 =>
                      LET rel == ((vnew - v) * Den) \div v
                      IN  rel * v = (vnew - v) * Den /\ lo <= rel /\ rel < hi

C7_Witness ==
    /\ Succeeded /\ InputRows >= 1
    /\ \E i \in 1..InputRows :
          /\ before.data.vals[Target][i] < 0
          /\ draws[i] > args.min_noise.v * Resolution
          /\ draws[i] < 0

\* C8: when add_noise raises UnknownColumn, NonNumericColumn or InvalidRange
\* the frame passed in is as it was, no draw was made and neither
\* process-wide generator was reseeded, seed or no seed.
C8_FailFast ==
    (Returned /\ result \in {UnknownColumn, NonNumericColumn, InvalidRange}) =>
        /\ data = before.data
        /\ draws = <<>>
        /\ rng = before.rng
        /\ pyseed = before.pyseed

C8_Witness ==
    /\ Returned /\ result = InvalidRange
    /\ args.seed # None /\ ValidSeed(args.seed[1])
    /\ SeedState(args.seed[1]) # before.rng
    /\ InputRows >= 1

RECURSIVE DrawsFrom(_, _, _, _)
DrawsFrom(q, n, low, high) ==
    IF n = 0 THEN <<>>
    ELSE <<low.v * Resolution + (high.v - low.v) * RandomSample(q)>>
           \o DrawsFrom((q + 1) % RngMod, n - 1, low, high)

RECURSIVE Steps(_, _)
Steps(q, n) == IF n = 0 THEN q ELSE Steps((q + 1) % RngMod, n - 1)

\* C10: a successful seeded invocation leaves the generator where the seed
\* and the row count put it; a successful unseeded one draws from the state
\* it found and leaves the generator one step per row further; so the draws
\* of an unseeded invocation right after a seeded one are fixed by that
\* seed, that row count and its own range.
C10_GeneratorEffect ==
    Succeeded =>
        /\ args.seed # None =>
              /\ rng = Steps((2 * args.seed[1] + 1) % RngMod, InputRows)
              /\ draws = DrawsFrom((2 * args.seed[1] + 1) % RngMod, InputRows,
                                   args.min_noise, args.max_noise)
              /\ pyseed = args.seed
        /\ args.seed = None =>
              /\ rng = Steps(before.rng, InputRows)
              /\ draws = DrawsFrom(before.rng, InputRows, args.min_noise, args.max_noise)
              /\ pyseed = before.pyseed
              /\ prior.seeded =>
                    draws = DrawsFrom(Steps((2 * prior.seed[1] + 1) % RngMod, prior.rows),
                                      InputRows, args.min_noise, args.max_noise)

C10_Witness ==
    /\ Succeeded /\ args.seed = None /\ InputRows = MaxRows
    /\ prior.seeded /\ prior.rows >= 1
    /\ rng # before.rng

----------------------------------------------------------------------------
(* Properties of main *)

CompletionLogged ==
    \E i \in 1..Len(log) : log[i] = InfoRecord("Data masking completed successfully.")

ErrorLogged == \E i \in 1..Len(log) : log[i].level = "ERROR"

Finished == pc \in {"done", "crashed"}

InputRejected ==
    \/ infile.state \in {"missing", "empty"}
    \/ args.column_name \notin {"id", "name", "salary"}
    \/ infile.rows = <<>>
    \/ args.column_name = "name"
    \/ FloatGe(args.min_noise, args.max_noise)

\* C3: the output file is written only after the input was read and
\* add_noise returned; a run whose input file is missing or empty, whose
\* column is unknown or not numeric, or whose range has min_noise >= max_noise
\* ends with an error logged and the output file untouched.
C3_NoWriteOnError ==
    /\ outfile.state = "written" =>
          /\ pc = "done" /\ infile.state = "csv" /\ ~InputRejected
          /\ before.data = ParsedFrame(infile.rows)
          /\ LET r == add_noise(before.data, args.column_name, args.min_noise,
                               args.max_noise, args.seed, before.rng, before.pyseed)
             IN  r.exc = NoError /\ r.data = data
          /\ outfile.header = data.cols /\ outfile.cells = data.vals
    /\ (Finished /\ InputRejected) =>
          /\ outfile \in OutputFiles
          /\ ErrorLogged
          /\ result # NoError

C3_Witness ==
    /\ pc = "done" /\ infile.state = "csv" /\ Len(infile.rows) = MaxRows
    /\ result = InvalidRange /\ outfile.state = "old"

\* C9: every run of main ends by main returning: no exception escapes, and
\* as long as main has not returned its next step can be taken (main is
\* straight-line code of three steps, so it does return); whatever
\* read_csv, add_noise or to_csv raised was caught and logged; the completion
\* message is logged only when the output file was written.
C9_MainReturns ==
    /\ pc # "crashed"
    /\ pc = "done" \/ ENABLED NextMain
    /\ result # NoError => pc = "done" /\ ErrorLogged /\ ~CompletionLogged
    /\ CompletionLogged => pc = "done" /\ outfile.state = "written"

C9_Witness ==
    /\ pc = "done" /\ result = RangeOverflow
    /\ ErrorLogged /\ outfile.state = "absent"

====
